---- MODULE Spec2Model ----
(***************************************************************************)
(* Model of srv/server.go: the weather server's provider fetch, the        *)
(* normalisation of the decoded provider response into current conditions  *)
(* and an hourly forecast, the condition and compass helpers, and the two  *)
(* HTTP handlers.                                                          *)
(*                                                                         *)
(* Conventions.  A Go pointer or an optional value is a sequence of length *)
(* at most one (<<>> is nil).  A Go string that the code inspects          *)
(* character by character (a timestamp, an hour label) is a sequence of    *)
(* one-character strings.  Go slices are indexed from 0 in the source and  *)
(* from 1 here: At(s, k) reads s[k] of the source.  A Go float is modelled *)
(* by an integer where the code only copies it.                            *)
(***************************************************************************)
EXTENDS Integers, Sequences, FiniteSets, TLC

VARIABLES
    pc,         \* server: request -> "idle" | "fetching" | "done"
    endpoint,   \* server: request -> "" | "root" | "api"
    exchange,   \* server: request -> <<>> | <<outcome of its provider exchange>>
    response,   \* server: request -> <<>> | <<the HTTP response written>>
    outbound,   \* server: number of provider requests issued so far
    data,       \* fetchWeather: <<>> | <<the decoded openMeteoResponse>>
    weather,    \* fetchWeather: <<>> | <<the WeatherData built>>
    idx,        \* fetchWeather: the loop index i of the hourly loop
    hourly,     \* fetchWeather: the hourly slice built so far
    npc,        \* fetchWeather: "off" | "current" | "loop" | "returned" | "panic"
    arg,        \* pure helpers: <<>> | <<the argument record>>
    ret         \* pure helpers: <<>> | <<the value returned>>

serverVars == <<pc, endpoint, exchange, response, outbound>>
fetchVars == <<data, weather, idx, hourly, npc>>
pureVars == <<arg, ret>>
vars == <<pc, endpoint, exchange, response, outbound, data, weather, idx, hourly, npc, arg, ret>>

(***************************************************************************)
(* Bounds of the model.                                                    *)
(***************************************************************************)
MaxRequests == 2
MaxLen == 2
MaxCode == 100
MaxDegrees == 400

(***************************************************************************)
(* Go arithmetic.                                                          *)
(***************************************************************************)
\* The outcome of a Go runtime panic (index out of range).
Panic == "panic"

\* int(num/den) for den > 0: the conversion truncates toward zero.
GoTrunc(num, den) == IF num >= 0 THEN num \div den ELSE -((-num) \div den)

\* a % b for b > 0: the remainder has the sign of the dividend.
GoRem(a, b) == IF a >= 0 THEN a % b ELSE -((-a) % b)

\* s[k] of a Go slice (k counted from 0), or Panic when k is out of range.
At(s, k) == IF k >= 0 /\ k < Len(s) THEN s[k + 1] ELSE Panic

(***************************************************************************)
(* weatherCodeToCondition.  The icon literals of the source are named here *)
(* by glyph; two codes share a name exactly when they share a literal.     *)
(***************************************************************************)
weatherCodeToCondition_nightVariantForCode2(code, isDay) ==
    CASE code = 0 -> IF isDay THEN <<"Clear sky", "sun">> ELSE <<"Clear sky", "moon">>
      [] code = 1 -> IF isDay THEN <<"Mainly clear", "sun-small-cloud">>
                               ELSE <<"Mainly clear", "moon">>
      [] code = 2 -> IF isDay THEN <<"Partly cloudy", "sun-behind-cloud">>
                               ELSE <<"Partly cloudy", "moon">>
      [] code = 3 -> <<"Overcast", "cloud">>
      [] code \in {45, 48} -> <<"Foggy", "fog">>
      [] code \in {51, 53, 55} -> <<"Drizzle", "rain-cloud">>
      [] code \in {56, 57} -> <<"Freezing drizzle", "rain-cloud-snowflake">>
      [] code \in {61, 63, 65} -> <<"Rain", "rain-cloud">>
      [] code \in {66, 67} -> <<"Freezing rain", "rain-cloud-snowflake">>
      [] code \in {71, 73, 75} -> <<"Snow", "snow-cloud">>
      [] code = 77 -> <<"Snow grains", "snow-cloud">>
      [] code \in {80, 81, 82} -> <<"Rain showers", "sun-rain-cloud">>
      [] code \in {85, 86} -> <<"Snow showers", "snow-cloud">>
      [] code = 95 -> <<"Thunderstorm", "thunder-cloud">>
      [] code \in {96, 99} -> <<"Thunderstorm with hail", "thunder-cloud">>
      [] OTHER -> <<"Unknown", "question-mark">>

weatherCodeToCondition(code, isDay) ==
    CASE code = 0 -> IF isDay THEN <<"Clear sky", "sun">> ELSE <<"Clear sky", "moon">>
      [] code = 1 -> IF isDay THEN <<"Mainly clear", "sun-small-cloud">>
                               ELSE <<"Mainly clear", "moon">>
      [] code = 2 -> <<"Partly cloudy", "sun-behind-cloud">>
      [] code = 3 -> <<"Overcast", "cloud">>
      [] code \in {45, 48} -> <<"Foggy", "fog">>
      [] code \in {51, 53, 55} -> <<"Drizzle", "rain-cloud">>
      [] code \in {56, 57} -> <<"Freezing drizzle", "rain-cloud-snowflake">>
      [] code \in {61, 63, 65} -> <<"Rain", "rain-cloud">>
      [] code \in {66, 67} -> <<"Freezing rain", "rain-cloud-snowflake">>
      [] code \in {71, 73, 75} -> <<"Snow", "snow-cloud">>
      [] code = 77 -> <<"Snow grains", "snow-cloud">>
      [] code \in {80, 81, 82} -> <<"Rain showers", "sun-rain-cloud">>
      [] code \in {85, 86} -> <<"Snow showers", "snow-cloud">>
      [] code = 95 -> <<"Thunderstorm", "thunder-cloud">>
      [] code \in {96, 99} -> <<"Thunderstorm with hail", "thunder-cloud">>
      [] OTHER -> <<"Unknown", "question-mark">>

(***************************************************************************)
(* windDirectionToCompass.                                                 *)
(*   index := int(float64(degrees)/22.5+0.5) % 16                          *)
(* degrees/22.5 + 0.5 equals (4*degrees + 45)/90, which is never an        *)
(* integer (4*degrees + 45 is odd) and so lies at least 1/90 away from     *)
(* one: the float64 rounding of the quotient cannot move it across an      *)
(* integer, and the truncation is that of the exact rational.              *)
(***************************************************************************)
directions ==
    <<"N", "NNE", "NE", "ENE", "E", "ESE", "SE", "SSE",
      "S", "SSW", "SW", "WSW", "W", "WNW", "NW", "NNW">>

compassIndex_noRounding(degrees) == GoRem(GoTrunc(4 * degrees, 90), 16)

compassIndex(degrees) == GoRem(GoTrunc(4 * degrees + 45, 90), 16)

windDirectionToCompass(degrees) == At(directions, compassIndex(degrees))

(***************************************************************************)
(* Strings the code reads character by character.                          *)
(***************************************************************************)
DigitChars == <<"0", "1", "2", "3", "4", "5", "6", "7", "8", "9">>

\* isDigit(s, k) of package time: s[k] exists and is a decimal digit.
isDigit(s, k) == k < Len(s) /\ \E n \in 1..10 : DigitChars[n] = s[k + 1]

digitVal(c) == (CHOOSE n \in 1..10 : DigitChars[n] = c) - 1

\* The decimal digits of n >= 0, without padding (appendInt(b, n, 0)).
appendInt(n) ==
    IF n < 10 THEN <<DigitChars[n + 1]>>
    ELSE <<DigitChars[(n \div 10) + 1], DigitChars[(n % 10) + 1]>>

(***************************************************************************)
(* time.Parse("2006-01-02T15:04", value), as package time runs it: the     *)
(* layout is the chunks stdLongYear "-" stdZeroMonth "-" stdZeroDay "T"    *)
(* stdHour ":" stdZeroMinute.  Each chunk consumes its text from the front *)
(* of the value; text left over after the last chunk is an error; the day  *)
(* is validated against the month and year at the end.                     *)
(***************************************************************************)
\* getnum(s, fixed): one or two leading digits; exactly two when fixed.
getnum(s, fixed) ==
    IF ~isDigit(s, 0) THEN [n |-> 0, rest |-> s, err |-> TRUE]
    ELSE IF ~isDigit(s, 1)
         THEN IF fixed THEN [n |-> 0, rest |-> s, err |-> TRUE]
              ELSE [n |-> digitVal(s[1]), rest |-> Tail(s), err |-> FALSE]
    ELSE [n |-> digitVal(s[1]) * 10 + digitVal(s[2]),
          rest |-> SubSeq(s, 3, Len(s)), err |-> FALSE]

\* stdLongYear: exactly four digits.
getLongYear(s) ==
    IF Len(s) < 4 \/ \E k \in 0..3 : ~isDigit(s, k)
    THEN [n |-> 0, rest |-> s, err |-> TRUE]
    ELSE [n |-> digitVal(s[1]) * 1000 + digitVal(s[2]) * 100
                  + digitVal(s[3]) * 10 + digitVal(s[4]),
          rest |-> SubSeq(s, 5, Len(s)), err |-> FALSE]

\* skip(value, prefix) for a one-character literal prefix.
skip(s, c) ==
    IF Len(s) = 0 \/ s[1] # c THEN [rest |-> s, err |-> TRUE]
    ELSE [rest |-> Tail(s), err |-> FALSE]

isLeap(year) == year % 4 = 0 /\ (year % 100 # 0 \/ year % 400 = 0)

daysIn(m, year) ==
    IF m = 2 THEN (IF isLeap(year) THEN 29 ELSE 28)
    ELSE IF m \in {4, 6, 9, 11} THEN 30 ELSE 31

\* [ok, hour]: whether the value parses, and the hour of the parsed time.
timeParse(value) ==
    LET y  == getLongYear(value)
        p1 == skip(y.rest, "-")
        mo == getnum(p1.rest, TRUE)
        p2 == skip(mo.rest, "-")
        d  == getnum(p2.rest, TRUE)
        p3 == skip(d.rest, "T")
        h  == getnum(p3.rest, FALSE)
        p4 == skip(h.rest, ":")
        mi == getnum(p4.rest, TRUE)
        bad == [ok |-> FALSE, hour |-> 0]
    IN  IF y.err \/ p1.err THEN bad
        ELSE IF mo.err \/ mo.n <= 0 \/ 12 < mo.n THEN bad
        ELSE IF p2.err \/ d.err \/ p3.err THEN bad
        ELSE IF h.err \/ h.n < 0 \/ 24 <= h.n THEN bad
        ELSE IF p4.err \/ mi.err \/ mi.n < 0 \/ 60 <= mi.n THEN bad
        ELSE IF Len(mi.rest) # 0 THEN bad
        ELSE IF d.n < 1 \/ d.n > daysIn(mo.n, y.n) THEN bad
        ELSE [ok |-> TRUE, hour |-> h.n]

timeFormat_noTwelve(hour) ==
    appendInt(hour % 12) \o <<" ">> \o (IF hour >= 12 THEN <<"P", "M">> ELSE <<"A", "M">>)

\* t.Format("3 PM"): stdHour12, a space, stdPM.
timeFormat(hour) ==
    LET hr == hour % 12
    IN  appendInt(IF hr = 0 THEN 12 ELSE hr) \o <<" ">>
          \o (IF hour >= 12 THEN <<"P", "M">> ELSE <<"A", "M">>)

\* hourDisplay of the hourly loop: the formatted hour, or the raw string.
hourDisplay(timeStr) ==
    LET t == timeParse(timeStr)
    IN  IF t.ok THEN timeFormat(t.hour) ELSE timeStr

(***************************************************************************)
(* The pure helpers applied to every input of a bounded range.             *)
(***************************************************************************)
ServerOff ==
    /\ pc = [r \in 1..MaxRequests |-> "idle"]
    /\ endpoint = [r \in 1..MaxRequests |-> ""]
    /\ exchange = [r \in 1..MaxRequests |-> <<>>]
    /\ response = [r \in 1..MaxRequests |-> <<>>]
    /\ outbound = 0

FetchOff ==
    /\ data = <<>>
    /\ weather = <<>>
    /\ idx = 0
    /\ hourly = <<>>
    /\ npc = "off"

PureOff ==
    /\ arg = <<>>
    /\ ret = <<>>

ConditionInit ==
    /\ ServerOff
    /\ FetchOff
    /\ arg \in {<<a>> : a \in [code : -1..MaxCode, isDay : BOOLEAN]}
    /\ ret = <<>>

ApplyCondition ==
    /\ arg # <<>>
    /\ ret = <<>>
    /\ ret' = <<weatherCodeToCondition(arg[1].code, arg[1].isDay)>>
    /\ UNCHANGED <<arg, serverVars, fetchVars>>

ConditionNext == ApplyCondition

SpecCondition == ConditionInit /\ [][ConditionNext]_vars

CompassInit ==
    /\ ServerOff
    /\ FetchOff
    /\ arg \in {<<a>> : a \in [degrees : -MaxDegrees..MaxDegrees]}
    /\ ret = <<>>

ApplyCompass ==
    /\ arg # <<>>
    /\ ret = <<>>
    /\ ret' = <<windDirectionToCompass(arg[1].degrees)>>
    /\ UNCHANGED <<arg, serverVars, fetchVars>>

CompassNext == ApplyCompass

SpecCompass == CompassInit /\ [][CompassNext]_vars

(***************************************************************************)
(* The decoded provider response (openMeteoResponse) and the inputs the    *)
(* model draws.  A field missing from the provider's JSON decodes to a     *)
(* zero value or an empty array, so the five hourly arrays are of          *)
(* independent lengths.                                                    *)
(***************************************************************************)
\* Two-digit and four-digit zero-padded decimals, for building timestamps.
Num2(n) == <<DigitChars[(n \div 10) + 1], DigitChars[(n % 10) + 1]>>

Num4(n) == Num2(n \div 100) \o Num2(n % 100)

\* The characters of "YYYY-MM-DDTHH:MM".
Ts(y, mo, d, h, mi) ==
    Num4(y) \o <<"-">> \o Num2(mo) \o <<"-">> \o Num2(d) \o <<"T">>
      \o Num2(h) \o <<":">> \o Num2(mi)

\* "2024-03-15T15:00" and "not-a-time".
TsA == Ts(2024, 3, 15, 15, 0)

TsBad == <<"n", "o", "t", "-", "a", "-", "t", "i", "m", "e">>

\* Timestamps of valid dates and times, each with its hour.
ValidTimes ==
    {[ts |-> Ts(dt[1], dt[2], dt[3], h, mi), hour |-> h] :
        dt \in {<<2024, 3, 15>>, <<2024, 2, 29>>, <<2023, 12, 31>>},
        h \in 0..23, mi \in {0, 59}}

\* Strings that are no timestamp of the layout: other text, another shape,
\* or the shape with a field out of range.
InvalidTimes ==
    { TsBad,
      <<>>,
      TsA \o <<":", "0", "0">>,                      \* with seconds
      TsA \o <<"Z">>,                                \* with a zone
      Num4(2024) \o <<"-">> \o Num2(3) \o <<"-">> \o Num2(15) \o <<" ">>
        \o Num2(15) \o <<":">> \o Num2(0),           \* a space for the T
      Num4(2024) \o <<"-", "3", "-">> \o Num2(15) \o <<"T">>
        \o Num2(15) \o <<":">> \o Num2(0),           \* one-digit month
      Num4(2024) \o <<"-">> \o Num2(3) \o <<"-">> \o Num2(15),   \* date only
      Ts(2024, 2, 30, 10, 0),
      Ts(2023, 2, 29, 10, 0),
      Ts(2024, 4, 31, 10, 0),
      Ts(2024, 13, 1, 10, 0),
      Ts(2024, 0, 10, 10, 0),
      Ts(2024, 3, 0, 10, 0),
      Ts(2024, 3, 32, 10, 0),
      Ts(2024, 3, 15, 24, 0),
      Ts(2024, 3, 15, 10, 60) }

\* "2024-03-15T5:00": stdHour accepts a one-digit hour.
TsShortHour ==
    Num4(2024) \o <<"-">> \o Num2(3) \o <<"-">> \o Num2(15) \o <<"T", "5", ":">> \o Num2(0)

TimestampInputs == {v.ts : v \in ValidTimes} \cup InvalidTimes \cup {TsShortHour}

SeqUpTo(S, n) == UNION {[1..m -> S] : m \in 0..n}

\* m values, distinct by position.
Ramp(base, m) == [k \in 1..m |-> base + k - 1]

Current(code, isDay) ==
    [time |-> TsA, temperature_2m |-> 72, apparent_temperature |-> 70,
     relative_humidity_2m |-> 55, wind_speed_10m |-> 8, wind_direction_10m |-> 270,
     weather_code |-> code, is_day |-> isDay, precipitation |-> 0, cloud_cover |-> 40]

Response(cur, t, temp, code, pp, dn) ==
    [current |-> cur,
     hourly |-> [time |-> t, temperature_2m |-> temp, weather_code |-> code,
                 precipitation_probability |-> pp, is_day |-> dn]]

Currents == {Current(0, 1), Current(3, 0)}

\* Every combination of lengths of the five hourly arrays up to MaxLen.
LengthInputs ==
    {Response(cur, t, Ramp(60, a), c, Ramp(10, b), dn) :
        cur \in Currents, t \in SeqUpTo({TsA, TsBad}, MaxLen), a \in 0..MaxLen,
        c \in SeqUpTo({0, 3}, MaxLen), b \in 0..MaxLen, dn \in SeqUpTo({0, 1}, MaxLen)}

\* One hourly entry for every timestamp of TimestampInputs.
TimeInputs ==
    {Response(Current(0, 1), <<ts>>, <<60>>, <<3>>, <<10>>, <<1>>) : ts \in TimestampInputs}

DecodedResponses == LengthInputs \cup TimeInputs

(***************************************************************************)
(* fetchWeather after the decode: the current conditions and the hourly    *)
(* loop.                                                                   *)
(***************************************************************************)
currentWeather(d) ==
    LET c == d.current
        cond == weatherCodeToCondition(c.weather_code, c.is_day = 1)
    IN  [Temperature |-> c.temperature_2m, FeelsLike |-> c.apparent_temperature,
         Humidity |-> c.relative_humidity_2m, WindSpeed |-> c.wind_speed_10m,
         WindDirection |-> c.wind_direction_10m, WeatherCode |-> c.weather_code,
         IsDay |-> (c.is_day = 1), Precipitation |-> c.precipitation,
         CloudCover |-> c.cloud_cover, LastUpdated |-> c.time,
         Condition |-> cond[1], ConditionEmoji |-> cond[2]]

loadBearingMissing_temperatureOnly(h, k) == k >= Len(h.temperature_2m)

\* The break of the loop: i is out of range for temperature or weather code.
loadBearingMissing(h, k) == k >= Len(h.temperature_2m) \/ k >= Len(h.weather_code)

hourlyIsDay_defaultTrue(h, k) == IF k < Len(h.is_day) THEN h.is_day[k + 1] = 1 ELSE TRUE

hourlyIsDay(h, k) == IF k < Len(h.is_day) THEN h.is_day[k + 1] = 1 ELSE FALSE

hourlyPrecipProb(h, k) ==
    IF k < Len(h.precipitation_probability) THEN h.precipitation_probability[k + 1] ELSE 0

hourEmoji_fromCurrent(d, k) ==
    weatherCodeToCondition(d.current.weather_code, d.current.is_day = 1)[2]

hourEmoji(d, k) == weatherCodeToCondition(d.hourly.weather_code[k + 1], hourlyIsDay(d.hourly, k))[2]

hourlyEntry(d, k) ==
    [Time |-> d.hourly.time[k + 1],
     Hour |-> hourDisplay(d.hourly.time[k + 1]),
     Temperature |-> d.hourly.temperature_2m[k + 1],
     WeatherCode |-> d.hourly.weather_code[k + 1],
     ConditionEmoji |-> hourEmoji(d, k),
     PrecipProb |-> hourlyPrecipProb(d.hourly, k),
     IsDay |-> hourlyIsDay(d.hourly, k)]

\* One pass of `for i, timeStr := range data.Hourly.Time` from the loop state
\* st = [pc, i, hourly].  Reading Temperature2m[i] or WeatherCode[i] out of
\* range is a runtime panic.
hourlyStep(d, st) ==
    LET h == d.hourly
        k == st.i
    IN  IF k >= Len(h.time) THEN [st EXCEPT !.pc = "returned"]
        ELSE IF loadBearingMissing(h, k) THEN [st EXCEPT !.pc = "returned"]
        ELSE IF k >= Len(h.temperature_2m) \/ k >= Len(h.weather_code)
             THEN [st EXCEPT !.pc = Panic]
        ELSE [pc |-> "loop", i |-> k + 1, hourly |-> Append(st.hourly, hourlyEntry(d, k))]

NormalizeInit ==
    /\ ServerOff
    /\ PureOff
    /\ data \in {<<d>> : d \in DecodedResponses}
    /\ weather = <<>>
    /\ idx = 0
    /\ hourly = <<>>
    /\ npc = "current"

\* Lines 124-142: the condition of the current weather, the WeatherData
\* record, the empty hourly slice.
BuildCurrent ==
    /\ npc = "current"
    /\ weather' = <<currentWeather(data[1])>>
    /\ npc' = "loop"
    /\ UNCHANGED <<data, idx, hourly, serverVars, pureVars>>

\* Lines 143-173: one pass of the hourly loop, or its end.
HourlyLoop ==
    /\ npc = "loop"
    /\ LET st == hourlyStep(data[1], [pc |-> "loop", i |-> idx, hourly |-> hourly])
       IN  /\ npc' = st.pc
           /\ idx' = st.i
           /\ hourly' = st.hourly
    /\ UNCHANGED <<data, weather, serverVars, pureVars>>

NormalizeNext == BuildCurrent \/ HourlyLoop

SpecNormalize == NormalizeInit /\ [][NormalizeNext]_vars

(***************************************************************************)
(* Properties of the hourly forecast (checked under SpecNormalize).        *)
(***************************************************************************)
Min3(a, b, c) ==
    IF a <= b /\ a <= c THEN a ELSE IF b <= c THEN b ELSE c

\* The hourly arrays of the decoded response being normalised.
In == data[1].hourly

PairedLength == Min3(Len(In.time), Len(In.temperature_2m), Len(In.weather_code))

\* C1: whatever the lengths of the five hourly arrays, building the hourly
\* forecast never panics (no index out of range), never holds more entries
\* than the shortest of time, temperature and weather code, and returns
\* exactly min(len(time), len(temperature), len(weather_code)) entries.
C1_HourlyLength ==
    /\ npc # Panic
    /\ npc \in {"loop", "returned"} => Len(hourly) = idx /\ idx <= PairedLength
    /\ npc = "returned" => Len(hourly) = PairedLength

\* C1 witness: returned with the weather codes the shortest array, so that
\* the result was truncated below the timestamps and the temperatures.
C1_Witness ==
    /\ npc = "returned"
    /\ Len(In.weather_code) >= 1
    /\ Len(In.temperature_2m) > Len(In.weather_code)
    /\ Len(In.time) > Len(In.weather_code)
    /\ Len(hourly) = Len(In.weather_code)

\* C5: every produced entry k has IsDay false when is_day has no element k
\* and IsDay = (is_day[k] = 1) otherwise, and PrecipProb 0 when
\* precipitation_probability has no element k and that element otherwise; a
\* short is_day or precipitation_probability array raises no error and
\* removes no entry (the count is decided by the other three arrays).
C5_HourlyDefaults ==
    /\ npc # Panic
    /\ \A k \in 1..Len(hourly) :
         /\ hourly[k].IsDay = (k <= Len(In.is_day) /\ In.is_day[k] = 1)
         /\ hourly[k].PrecipProb =
              (IF k <= Len(In.precipitation_probability)
               THEN In.precipitation_probability[k] ELSE 0)
    /\ npc = "returned" => Len(hourly) = PairedLength

\* C5 witness: two entries returned from an empty is_day array and a
\* precipitation array of one element: the first entry has the provider's
\* probability, the second the default.
C5_Witness ==
    /\ npc = "returned"
    /\ Len(hourly) = 2
    /\ Len(In.is_day) = 0
    /\ Len(In.precipitation_probability) = 1
    /\ hourly[1].PrecipProb = In.precipitation_probability[1]
    /\ hourly[1].PrecipProb # 0
    /\ hourly[2].PrecipProb = 0
    /\ ~hourly[1].IsDay /\ ~hourly[2].IsDay

\* The hour label the claim gives for hour h of a 24-hour clock.
Label12(h) ==
    IF h = 0 THEN <<"1", "2", " ", "A", "M">>
    ELSE IF h <= 11 THEN appendInt(h) \o <<" ", "A", "M">>
    ELSE IF h = 12 THEN <<"1", "2", " ", "P", "M">>
    ELSE appendInt(h - 12) \o <<" ", "P", "M">>

\* C6: every produced entry k carries the timestamp time[k]; its Hour is the
\* 12-hour label of the timestamp's hour when the timestamp is a valid
\* YYYY-MM-DDTHH:MM, and the raw timestamp itself when it does not parse; an
\* unparsable timestamp raises no error and drops no entry.
C6_HourLabel ==
    /\ npc # Panic
    /\ \A k \in 1..Len(hourly) :
         /\ hourly[k].Time = In.time[k]
         /\ \A v \in ValidTimes : hourly[k].Time = v.ts => hourly[k].Hour = Label12(v.hour)
         /\ hourly[k].Time \in InvalidTimes => hourly[k].Hour = hourly[k].Time
    /\ npc = "returned" => Len(hourly) = PairedLength

\* C6 witness: "not-a-time" followed by "2024-03-15T15:00": both entries are
\* produced, the first labelled with its raw string, the second "3 PM".
C6_Witness ==
    /\ npc = "returned"
    /\ In.time = <<TsBad, TsA>>
    /\ Len(hourly) = 2
    /\ hourly[1].Hour = TsBad
    /\ hourly[2].Hour = <<"3", " ", "P", "M">>

\* C10: the output is a prefix of the provider's hourly block: entry k has
\* Time = time[k], Temperature = temperature_2m[k], WeatherCode =
\* weather_code[k], and its icon is that of weatherCodeToCondition for its
\* own weather code and its own IsDay, whatever the current conditions are.
C10_HourlyOrder ==
    /\ Len(hourly) <= Len(In.time)
    /\ \A k \in 1..Len(hourly) :
         /\ hourly[k].Time = In.time[k]
         /\ hourly[k].Temperature = In.temperature_2m[k]
         /\ hourly[k].WeatherCode = In.weather_code[k]
         /\ hourly[k].ConditionEmoji =
              weatherCodeToCondition(In.weather_code[k], hourly[k].IsDay)[2]

\* C10 witness: two entries returned that differ in timestamp, temperature,
\* weather code and icon, the second with an icon other than the current
\* conditions' icon.
C10_Witness ==
    /\ npc = "returned"
    /\ Len(hourly) = 2
    /\ weather # <<>>
    /\ hourly[1].Time # hourly[2].Time
    /\ hourly[1].Temperature # hourly[2].Temperature
    /\ hourly[1].WeatherCode # hourly[2].WeatherCode
    /\ hourly[1].ConditionEmoji # hourly[2].ConditionEmoji
    /\ hourly[2].ConditionEmoji # weather[1].ConditionEmoji

(***************************************************************************)
(* The server: fetchWeather as a whole, the two handlers, and concurrent   *)
(* inbound requests.  A handler is split where it blocks on the provider:  *)
(* Begin issues the outbound GET, Complete receives the outcome of the     *)
(* exchange and runs the rest of the handler.                              *)
(***************************************************************************)
StatusOK == 200

StatusServiceUnavailable == 503

\* The hourly loop run to its end.
RECURSIVE runHourly(_, _)
runHourly(d, st) == IF st.pc = "loop" THEN runHourly(d, hourlyStep(d, st)) ELSE st

\* What the provider exchange of one outbound request can end in: a
\* transport error (err), or a response with a status and a body; the body
\* is <<>> when it does not decode as JSON of the expected shape (an empty
\* body for one) and <<d>> when it decodes to d.  The body of a response
\* whose status is not 200 is never read.
ServerPayloads ==
    { Response(Current(0, 1), <<TsA>>, <<60>>, <<3>>, <<10>>, <<1>>),
      Response(Current(3, 0), <<>>, <<>>, <<>>, <<>>, <<>>),
      Response(Current(0, 1), <<TsA, TsBad>>, <<60, 61>>, <<0>>, <<>>, <<>>) }

Outcomes ==
    {[err |-> e, status |-> 0, body |-> <<>>] : e \in {"timeout", "connection refused"}}
      \cup {[err |-> "", status |-> st, body |-> <<>>] : st \in {500, 404, 204}}
      \cup {[err |-> "", status |-> StatusOK, body |-> b] :
              b \in {<<>>} \cup {<<d>> : d \in ServerPayloads}}

\* [err, panicked, weather, hourly]: the three results of fetchWeather for
\* the outcome o of its one client.Get, or a panic raised inside it.
fetchWeather(o) ==
    IF o.err # ""
    THEN [err |-> "fetch weather", panicked |-> FALSE, weather |-> <<>>, hourly |-> <<>>]
    ELSE IF o.status # StatusOK
    THEN [err |-> "weather API returned status", panicked |-> FALSE,
          weather |-> <<>>, hourly |-> <<>>]
    ELSE IF o.body = <<>>
    THEN [err |-> "decode weather", panicked |-> FALSE, weather |-> <<>>, hourly |-> <<>>]
    ELSE LET d == o.body[1]
             st == runHourly(d, [pc |-> "loop", i |-> 0, hourly |-> <<>>])
         IN  [err |-> "", panicked |-> (st.pc = Panic),
              weather |-> <<currentWeather(d)>>, hourly |-> st.hourly]

fetchResult_cached(r, ex) ==
    fetchWeather(ex[CHOOSE q \in 1..MaxRequests :
                      ex[q] # <<>> /\ \A p \in 1..(q - 1) : ex[p] = <<>>][1])

\* `weather, hourly, err := s.fetchWeather()` of the handler of request r:
\* the result of the request's own exchange.
fetchResult(r, ex) == fetchWeather(ex[r][1])

\* A handler that panics writes no response: net/http drops the connection.
Aborted == [status |-> 0, contentType |-> "", body |-> <<>>]

rootResponse_serverError(res, renderOk) ==
    IF res.panicked THEN Aborted
    ELSE IF res.err # ""
    THEN [status |-> 500, contentType |-> "text/plain; charset=utf-8", body |-> <<>>]
    ELSE [status |-> StatusOK, contentType |-> "text/html; charset=utf-8",
          body |-> <<[template |-> "weather.html",
                      data |-> [Hostname |-> "hostname", Now |-> "now",
                                Weather |-> res.weather, Hourly |-> res.hourly,
                                Error |-> ""]]>>]

\* HandleRoot after the fetch: the pageData and the page rendered from it.
\* The status is never set, so it is 200.  When the template fails to parse
\* or to execute (renderOk false) the error is logged and no page is
\* delivered: body is <<>>.
rootResponse(res, renderOk) ==
    IF res.panicked THEN Aborted
    ELSE LET page ==
               [Hostname |-> "hostname", Now |-> "now",
                Weather |-> IF res.err # "" THEN <<>> ELSE res.weather,
                Hourly |-> IF res.err # "" THEN <<>> ELSE res.hourly,
                Error |-> IF res.err # ""
                          THEN "Unable to fetch weather data. Please try again later."
                          ELSE ""]
         IN  [status |-> StatusOK, contentType |-> "text/html; charset=utf-8",
              body |-> IF renderOk THEN <<[template |-> "weather.html", data |-> page]>>
                       ELSE <<>>]

\* The fields of the structs HandleAPI encodes: the Go name and the name of
\* the json tag ("" when the field has no tag).
WeatherDataFields ==
    <<[name |-> "Temperature", tag |-> ""], [name |-> "FeelsLike", tag |-> ""],
      [name |-> "Humidity", tag |-> ""], [name |-> "WindSpeed", tag |-> ""],
      [name |-> "WindDirection", tag |-> ""], [name |-> "WeatherCode", tag |-> ""],
      [name |-> "IsDay", tag |-> ""], [name |-> "Precipitation", tag |-> ""],
      [name |-> "CloudCover", tag |-> ""], [name |-> "LastUpdated", tag |-> ""],
      [name |-> "Condition", tag |-> ""], [name |-> "ConditionEmoji", tag |-> ""]>>

HourlyForecastFields ==
    <<[name |-> "Time", tag |-> ""], [name |-> "Hour", tag |-> ""],
      [name |-> "Temperature", tag |-> ""], [name |-> "WeatherCode", tag |-> ""],
      [name |-> "ConditionEmoji", tag |-> ""], [name |-> "PrecipProb", tag |-> ""],
      [name |-> "IsDay", tag |-> ""]>>

apiResponseFields ==
    <<[name |-> "Current", tag |-> "current"], [name |-> "Hourly", tag |-> "hourly"]>>

\* encoding/json: an exported field is written under its tag's name, and
\* under its Go name when it has no tag.
jsonKey(f) == IF f.tag # "" THEN f.tag ELSE f.name

\* The JSON object of struct value v: a function from its keys.
jsonObject(fields, v) ==
    [key \in {jsonKey(fields[n]) : n \in 1..Len(fields)} |->
        v[fields[CHOOSE n \in 1..Len(fields) : jsonKey(fields[n]) = key].name]]

\* HandleAPI after the fetch.  http.Error writes the status and the message
\* as text/plain.
apiResponse(res) ==
    IF res.panicked THEN Aborted
    ELSE IF res.err # ""
    THEN [status |-> StatusServiceUnavailable, contentType |-> "text/plain; charset=utf-8",
          body |-> "Unable to fetch weather"]
    ELSE [status |-> StatusOK, contentType |-> "application/json",
          body |-> jsonObject(apiResponseFields,
                     [Current |-> jsonObject(WeatherDataFields, res.weather[1]),
                      Hourly |-> [k \in 1..Len(res.hourly) |->
                                    jsonObject(HourlyForecastFields, res.hourly[k])]])]

Init ==
    /\ ServerOff
    /\ FetchOff
    /\ PureOff

\* Requests are numbered in the order they arrive.
Arrives(r) == pc[r] = "idle" /\ \A q \in 1..(r - 1) : pc[q] # "idle"

\* GET /: HandleRoot up to the client.Get of fetchWeather.
BeginRoot ==
    \E r \in 1..MaxRequests :
        /\ Arrives(r)
        /\ pc' = [pc EXCEPT ![r] = "fetching"]
        /\ endpoint' = [endpoint EXCEPT ![r] = "root"]
        /\ outbound' = outbound + 1
        /\ UNCHANGED <<exchange, response, fetchVars, pureVars>>

\* GET /api/weather: HandleAPI up to the client.Get of fetchWeather.
BeginAPI ==
    \E r \in 1..MaxRequests :
        /\ Arrives(r)
        /\ pc' = [pc EXCEPT ![r] = "fetching"]
        /\ endpoint' = [endpoint EXCEPT ![r] = "api"]
        /\ outbound' = outbound + 1
        /\ UNCHANGED <<exchange, response, fetchVars, pureVars>>

\* The rest of HandleRoot once the exchange has ended in outcome o.
CompleteRoot ==
    \E r \in 1..MaxRequests, o \in Outcomes, renderOk \in BOOLEAN :
        /\ pc[r] = "fetching"
        /\ endpoint[r] = "root"
        /\ exchange' = [exchange EXCEPT ![r] = <<o>>]
        /\ response' = [response EXCEPT
                          ![r] = <<rootResponse(fetchResult(r, exchange'), renderOk)>>]
        /\ pc' = [pc EXCEPT ![r] = "done"]
        /\ UNCHANGED <<endpoint, outbound, fetchVars, pureVars>>

\* The rest of HandleAPI once the exchange has ended in outcome o.
CompleteAPI ==
    \E r \in 1..MaxRequests, o \in Outcomes :
        /\ pc[r] = "fetching"
        /\ endpoint[r] = "api"
        /\ exchange' = [exchange EXCEPT ![r] = <<o>>]
        /\ response' = [response EXCEPT ![r] = <<apiResponse(fetchResult(r, exchange'))>>]
        /\ pc' = [pc EXCEPT ![r] = "done"]
        /\ UNCHANGED <<endpoint, outbound, fetchVars, pureVars>>

Next == BeginRoot \/ BeginAPI \/ CompleteRoot \/ CompleteAPI

Spec == Init /\ [][Next]_vars

(***************************************************************************)
(* Properties of the handlers (checked under Spec).                        *)
(***************************************************************************)
Done == {r \in 1..MaxRequests : pc[r] = "done"}

\* The exchange did not end in a 200 response with a body that decodes: a
\* transport error or timeout, another status, or an undecodable body.
FetchFailed(o) == ~(o.err = "" /\ o.status = StatusOK /\ o.body # <<>>)

\* C2: when the provider exchange of a request fails (transport error or
\* timeout, a status other than 200, a body that does not decode),
\* fetchWeather returns an error, no weather and no hourly entries; GET /
\* answers 200 (never a 5xx) and the page data it renders has a non-empty
\* Error, no Weather and no Hourly entries; GET /api/weather answers 503
\* with the plain-text message and no JSON.
C2_FetchFailure ==
    \A r \in Done :
        FetchFailed(exchange[r][1]) =>
            /\ fetchWeather(exchange[r][1]).err # ""
            /\ fetchWeather(exchange[r][1]).weather = <<>>
            /\ fetchWeather(exchange[r][1]).hourly = <<>>
            /\ endpoint[r] = "root" =>
                 /\ response[r][1].status = StatusOK
                 /\ response[r][1].status \notin 500..599
                 /\ \A page \in {response[r][1].body[n] : n \in 1..Len(response[r][1].body)} :
                      /\ page.data.Error # ""
                      /\ page.data.Weather = <<>>
                      /\ page.data.Hourly = <<>>
            /\ endpoint[r] = "api" =>
                 /\ response[r][1].status = StatusServiceUnavailable
                 /\ response[r][1].contentType = "text/plain; charset=utf-8"
                 /\ response[r][1].body = "Unable to fetch weather"

\* C2 witness: the provider answered 500 to a GET / and to a GET
\* /api/weather; the page was rendered with the inline error, the API
\* answered 503.
C2_Witness ==
    \E r \in Done, q \in Done :
        /\ endpoint[r] = "root" /\ endpoint[q] = "api"
        /\ exchange[r][1].status = 500 /\ exchange[q][1].status = 500
        /\ response[r][1].body # <<>>
        /\ response[r][1].body[1].data.Error # ""
        /\ response[q][1].status = StatusServiceUnavailable

\* The response agrees with resp in status and content type, and then in
\* body.
SameResponse(got, resp) ==
    /\ got.status = resp.status
    /\ got.contentType = resp.contentType
    /\ got.body = resp.body

\* C3: after any interleaving, the number of outbound provider requests is
\* the number of inbound requests handled so far (one each, none retried
\* after a failure), and the response of every finished request is the one
\* its handler builds from the outcome of its own exchange alone.
C3_OneFetchPerRequest ==
    /\ outbound = Cardinality({r \in 1..MaxRequests : pc[r] # "idle"})
    /\ \A r \in Done :
         /\ exchange[r] # <<>>
         /\ endpoint[r] = "api" =>
              SameResponse(response[r][1], apiResponse(fetchWeather(exchange[r][1])))
         /\ endpoint[r] = "root" =>
              \E renderOk \in BOOLEAN :
                  SameResponse(response[r][1],
                               rootResponse(fetchWeather(exchange[r][1]), renderOk))

\* C3 witness: two requests to the same endpoint have finished, the first on
\* a failed exchange and the second on a successful one, with different
\* responses, and two outbound requests were issued in all.
C3_Witness ==
    /\ Done = {1, 2}
    /\ outbound = 2
    /\ endpoint[1] = "api" /\ endpoint[2] = "api"
    /\ FetchFailed(exchange[1][1])
    /\ ~FetchFailed(exchange[2][1])
    /\ response[1][1].status = StatusServiceUnavailable
    /\ response[2][1].status = StatusOK

\* The keys the claim gives for the JSON objects of GET /api/weather.
ClaimedCurrentKeys ==
    {"temperature", "feelsLike", "humidity", "windSpeed", "windDirection", "weatherCode",
     "isDay", "precipitation", "cloudCover", "lastUpdated", "condition", "conditionEmoji"}

ClaimedHourlyKeys ==
    {"time", "hour", "temperature", "weatherCode", "conditionEmoji", "precipProb", "isDay"}

\* C9: on a successful fetch the JSON body of GET /api/weather has exactly
\* the keys current and hourly, the current object exactly the keys
\* temperature, feelsLike, humidity, windSpeed, windDirection, weatherCode,
\* isDay, precipitation, cloudCover, lastUpdated, condition, conditionEmoji,
\* and every hourly entry exactly the keys time, hour, temperature,
\* weatherCode, conditionEmoji, precipProb, isDay.
C9_JsonKeys ==
    \A r \in Done :
        (endpoint[r] = "api" /\ response[r][1].status = StatusOK) =>
            LET body == response[r][1].body
            IN  /\ DOMAIN body = {"current", "hourly"}
                /\ DOMAIN body["current"] = ClaimedCurrentKeys
                /\ \A k \in 1..Len(body["hourly"]) :
                     DOMAIN body["hourly"][k] = ClaimedHourlyKeys

(***************************************************************************)
(* Properties of weatherCodeToCondition (checked under SpecCondition).     *)
(***************************************************************************)
\* The documented table: the codes of each row and their label.
DocumentedLabels ==
    { <<{0}, "Clear sky">>, <<{1}, "Mainly clear">>, <<{2}, "Partly cloudy">>,
      <<{3}, "Overcast">>, <<{45, 48}, "Foggy">>, <<{51, 53, 55}, "Drizzle">>,
      <<{56, 57}, "Freezing drizzle">>, <<{61, 63, 65}, "Rain">>,
      <<{66, 67}, "Freezing rain">>, <<{71, 73, 75}, "Snow">>, <<{77}, "Snow grains">>,
      <<{80, 81, 82}, "Rain showers">>, <<{85, 86}, "Snow showers">>,
      <<{95}, "Thunderstorm">>, <<{96, 99}, "Thunderstorm with hail">> }

DocumentedCodes == UNION {row[1] : row \in DocumentedLabels}

\* C4: for every code of the documented table the label returned is the
\* documented one; every other code gives ("Unknown", unknown icon) for
\* either isDay; for codes 0 and 1 day and night give the same label and
\* different icons; for every other code the result does not depend on
\* isDay.
C4_ConditionTable ==
    ret # <<>> =>
        LET code == arg[1].code
            got == ret[1]
            flipped == weatherCodeToCondition(code, ~arg[1].isDay)
        IN  /\ \A row \in DocumentedLabels : code \in row[1] => got[1] = row[2]
            /\ code \notin DocumentedCodes => got = <<"Unknown", "question-mark">>
            /\ code \in {0, 1} => got[1] = flipped[1] /\ got[2] # flipped[2]
            /\ code \notin {0, 1} => got = flipped

\* C4 witness: code 1 at night returned ("Mainly clear", moon).
C4_Witness ==
    /\ ret # <<>>
    /\ arg[1].code = 1
    /\ ~arg[1].isDay
    /\ ret[1] = <<"Mainly clear", "moon">>

(***************************************************************************)
(* Properties of windDirectionToCompass (checked under SpecCompass).       *)
(***************************************************************************)
\* The label at index round-half-up(degrees / 22.5) mod 16:
\* floor(degrees/22.5 + 0.5) = floor((4*degrees + 45) / 90).
RoundedLabel(degrees) == directions[(((4 * degrees + 45) \div 90) % 16) + 1]

\* C7: for any integer degrees, negative and above 359 included, the result
\* is one of the 16 compass labels, the one at index
\* round(degrees / 22.5) mod 16 with rounding half-up.
C7_CompassTotal ==
    ret # <<>> =>
        /\ ret[1] \in {directions[n] : n \in 1..16}
        /\ ret[1] = RoundedLabel(arg[1].degrees)

\* C8: for degrees in 0..360 the result is the label at index
\* floor(degrees / 22.5 + 0.5) mod 16; 0 gives N, 90 E, 180 S, 270 W, 360 N,
\* 11 N and 12 NNE.
C8_CompassRange ==
    (ret # <<>> /\ arg[1].degrees \in 0..360) =>
        LET d == arg[1].degrees
        IN  /\ ret[1] = RoundedLabel(d)
            /\ d \in {0, 11, 360} => ret[1] = "N"
            /\ d = 12 => ret[1] = "NNE"
            /\ d = 90 => ret[1] = "E"
            /\ d = 180 => ret[1] = "S"
            /\ d = 270 => ret[1] = "W"

\* C8 witness: 12 degrees returned NNE (the first degree past the 11.25
\* boundary).
C8_Witness ==
    /\ ret = <<"NNE">>
    /\ arg[1].degrees = 12

====
